---- MODULE Spec2Model ----
(***************************************************************************)
(* The flight-delay notebook spark_play_ml.ipynb as a state machine: the   *)
(* code cells run top to bottom, each statement one step.  The variables   *)
(* are the notebook's names (flights, planes, model_data, piped_data,      *)
(* train, test, best_lr, test_results) plus the state held inside the      *)
(* fitted pipeline and inside CrossValidator.fit while it runs.            *)
(*                                                                         *)
(* Spec   : cells 3..16, from the loaded tables to the train/test split.   *)
(* SpecCV : cells 16..27, from the split to the printed test metric.       *)
(***************************************************************************)
EXTENDS Integers, Sequences, FiniteSets, Bags, TLC

VARIABLES
    flights,       \* the flights table as loaded (cell 3)
    planes,        \* the planes table (cell 3, renamed in cell 5)
    model_data,    \* the working table (cells 6..10)
    fits,          \* the StringIndexer fits made so far: the column each scanned
    pipe_model,    \* the fitted pipeline: the labels of each indexer
    piped_data,    \* cell 15
    train,         \* cell 16
    test,          \* cell 16
    pc,            \* the next statement to run
    cvDataset,     \* CrossValidator.fit: the dataset it was handed
    foldOf,        \* CrossValidator.fit: the fold each row of the dataset fell in
    fold,          \* CrossValidator.fit: the fold being evaluated
    results,       \* CrossValidator.fit: the metric each finished task returned
    metrics,       \* CrossValidator.fit: the running sum per grid point
    numFits,       \* the fold-fits made so far
    best_lr,       \* cell 24
    test_results,  \* cell 26
    auc            \* cell 27: the printed metric

vars == <<flights, planes, model_data, fits, pipe_model, piped_data, train, test, pc,
          cvDataset, foldOf, fold, results, metrics, numFits, best_lr, test_results,
          auc>>

dataVars == <<flights, planes, model_data, fits, pipe_model, piped_data, train, test>>

cvVars == <<cvDataset, foldOf, fold, results, metrics, numFits, best_lr, test_results,
            auc>>

(***************************************************************************)
(* Bounds.                                                                 *)
(***************************************************************************)
MaxFlights == 3
MaxPlanes == 2
\* regParam candidates (the notebook sweeps ten)
NumReg == 1
\* folds (CrossValidator's default is three)
NumFolds == 2

\* elasticNetParam candidates: [0, 1]
NumElasticNet == 2

(***************************************************************************)
(* Cells.  A cell of a table is null, an integer, a boolean or a string (a *)
(* sequence of characters); all cells share one record shape.              *)
(***************************************************************************)
Null == [k |-> "null", i |-> 0, s |-> <<>>]
IntV(n) == [k |-> "int", i |-> n, s |-> <<>>]
BoolV(b) == [k |-> "bool", i |-> IF b THEN 1 ELSE 0, s |-> <<>>]
StrV(s) == [k |-> "str", i |-> 0, s |-> s]

IsNull(v) == v.k = "null"

Digits == {"0", "1", "2", "3", "4", "5", "6", "7", "8", "9"}

DigitVal(c) ==
    CASE c = "0" -> 0 [] c = "1" -> 1 [] c = "2" -> 2 [] c = "3" -> 3 [] c = "4" -> 4
      [] c = "5" -> 5 [] c = "6" -> 6 [] c = "7" -> 7 [] c = "8" -> 8 [] c = "9" -> 9

RECURSIVE DigitsValue(_)
DigitsValue(s) ==
    IF s = <<>> THEN 0
    ELSE 10 * DigitsValue(SubSeq(s, 1, Len(s) - 1)) + DigitVal(s[Len(s)])

AllDigits(s) == \A i \in 1..Len(s) : s[i] \in Digits

RECURSIVE StripZeros(_)
StripZeros(s) == IF Len(s) > 1 /\ s[1] = "0" THEN StripZeros(Tail(s)) ELSE s

\* The largest 32-bit integer is IntMaxTens * 10 + 7, the smallest is
\* -(IntMaxTens * 10 + 8).
IntMaxTens == 214748364

InIntRange(digits, neg) ==
    LET d == StripZeros(digits)
        tens == DigitsValue(SubSeq(d, 1, 9))
        last == DigitVal(d[10])
    IN  \/ Len(d) <= 9
        \/ /\ Len(d) = 10
           /\ \/ tens < IntMaxTens
              \/ tens = IntMaxTens /\ last <= (IF neg THEN 8 ELSE 7)

\* The value of a digit string in range, built on the side of its sign.
RECURSIVE SignedValue(_, _)
SignedValue(s, neg) ==
    IF s = <<>> THEN 0
    ELSE LET d == DigitVal(s[Len(s)])
             rest == 10 * SignedValue(SubSeq(s, 1, Len(s) - 1), neg)
         IN  IF neg THEN rest - d ELSE rest + d

\* The string-to-integer cast: an optional sign, digits, and an optional
\* fraction that is dropped; anything else, or a value out of the 32-bit
\* range, is null.
StringToInt(s) ==
    LET signed == Len(s) > 0 /\ s[1] \in {"-", "+"}
        body == IF signed THEN SubSeq(s, 2, Len(s)) ELSE s
        dots == {i \in 1..Len(body) : body[i] = "."}
        dot == IF dots = {} THEN Len(body) + 1
               ELSE CHOOSE i \in dots : \A j \in dots : i <= j
        whole == SubSeq(body, 1, dot - 1)
        frac == SubSeq(body, dot + 1, Len(body))
        neg == signed /\ s[1] = "-"
    IN  IF body = <<>> \/ ~AllDigits(whole) \/ ~AllDigits(frac) THEN Null
        ELSE IF ~InIntRange(whole, neg) THEN Null
        ELSE IntV(SignedValue(StripZeros(whole), neg))

\* A cast that turns a malformed string into 0 instead of null.
CastIntegerZero(v) ==
    CASE v.k = "null" -> Null
      [] v.k = "int" -> v
      [] v.k = "bool" -> IntV(v.i)
      [] v.k = "str" -> IF StringToInt(v.s) = Null THEN IntV(0) ELSE StringToInt(v.s)

\* column.cast("integer")
CastInteger(v) ==
    CASE v.k = "null" -> Null
      [] v.k = "int" -> v
      [] v.k = "bool" -> IntV(v.i)
      [] v.k = "str" -> StringToInt(v.s)

\* column - column
Minus(a, b) == IF a.k = "int" /\ b.k = "int" THEN IntV(a.i - b.i) ELSE Null

\* column > 0
GreaterThanZero(a) == IF a.k = "int" THEN BoolV(a.i > 0) ELSE Null

(***************************************************************************)
(* Tables: sequences of rows, a row a record from column name to cell.     *)
(***************************************************************************)
WithColumn(r, name, v) ==
    [f \in (DOMAIN r) \cup {name} |-> IF f = name THEN v ELSE r[f]]

MapRows(t, Op(_)) == [i \in 1..Len(t) |-> Op(t[i])]

RECURSIVE Concat(_)
Concat(ss) == IF ss = <<>> THEN <<>> ELSE Head(ss) \o Concat(Tail(ss))

Column(t, name) == [i \in 1..Len(t) |-> t[i][name]]

BagOf(t) == [r \in {t[i] : i \in 1..Len(t)} |-> Cardinality({i \in 1..Len(t) : t[i] = r})]

\* planes.withColumnRenamed("year", "plane_year")
RenameYear(p) == [tailnum |-> p.tailnum, plane_year |-> p.year]

\* flights.join(planes, on="tailnum", how="leftouter"): one row per matching
\* pair; a flight with no match (a null key matches nothing) is kept once
\* with a null plane_year.
Matches(f, ps) == SelectSeq(ps, LAMBDA p : ~IsNull(f.tailnum) /\ p.tailnum = f.tailnum)

JoinRow(f, ps) ==
    LET m == Matches(f, ps)
    IN  IF m = <<>> THEN <<WithColumn(f, "plane_year", Null)>>
        ELSE [j \in 1..Len(m) |-> WithColumn(f, "plane_year", m[j].plane_year)]

\* An inner join: the flights with no match are dropped.
InnerJoin(fs, ps) ==
    Concat([i \in 1..Len(fs) |->
              IF Matches(fs[i], ps) = <<>> THEN <<>> ELSE JoinRow(fs[i], ps)])

LeftOuterJoin(fs, ps) == Concat([i \in 1..Len(fs) |-> JoinRow(fs[i], ps)])

CastColumn(t, name) == MapRows(t, LAMBDA r : WithColumn(r, name, CastInteger(r[name])))

RequiredColumns == {"arr_delay", "dep_delay", "air_time", "plane_year"}

\* A filter that forgets dep_delay.
FilterConditionThree(r) ==
    ~IsNull(r.arr_delay) /\ ~IsNull(r.air_time) /\ ~IsNull(r.plane_year)

\* "arr_delay is not NULL and dep_delay is not NULL and air_time is not NULL
\*  and plane_year is not NULL"
FilterCondition(r) ==
    ~IsNull(r.arr_delay) /\ ~IsNull(r.dep_delay) /\ ~IsNull(r.air_time)
        /\ ~IsNull(r.plane_year)

FilterRows(t) == SelectSeq(t, FilterCondition)

\* model_data.withColumn("plane_age", model_data.year - model_data.plane_year)
AddPlaneAge(t) == MapRows(t, LAMBDA r : WithColumn(r, "plane_age", Minus(r.year, r.plane_year)))

\* model_data.withColumn("is_late", model_data.arr_delay > 0)
AddIsLate(t) == MapRows(t, LAMBDA r : WithColumn(r, "is_late", GreaterThanZero(r.arr_delay)))

\* model_data.withColumn("label", model_data.is_late.cast("integer"))
AddLabel(t) == MapRows(t, LAMBDA r : WithColumn(r, "label", CastInteger(r.is_late)))

(***************************************************************************)
(* The input tables.                                                       *)
(***************************************************************************)
Flight(t, y, m, ad, dd, at, c, d) ==
    [tailnum |-> t, year |-> y, month |-> m, arr_delay |-> ad, dep_delay |-> dd,
     air_time |-> at, carrier |-> c, dest |-> d]

N1 == StrV(<<"N", "1">>)
N2 == StrV(<<"N", "2">>)
N3 == StrV(<<"N", "3">>)
NA == StrV(<<"N", "A">>)
AA == StrV(<<"A", "A">>)
UA == StrV(<<"U", "A">>)
SEA == StrV(<<"S", "E", "A">>)
PDX == StrV(<<"P", "D", "X">>)

\* arr_delay and air_time are read as strings (the files hold "NA"); the
\* other numeric columns are read as integers, or as strings when a cell is
\* not a number.
FlightCands ==
    << Flight(N1, IntV(2014), IntV(1), StrV(<<"5">>), IntV(2), StrV(<<"3", "0">>), AA, SEA),
       Flight(N2, IntV(2014), IntV(2), StrV(<<"-", "3">>), IntV(0), StrV(<<"2", "0">>), UA, PDX),
       Flight(N1, IntV(2014), IntV(3), NA, IntV(1), StrV(<<"1", "5">>), AA, PDX),
       Flight(N3, IntV(2014), IntV(4), StrV(<<"0">>), IntV(-1), StrV(<<"4", "0">>), UA, SEA),
       Flight(N2, IntV(2014), StrV(<<"x">>), StrV(<<"7">>), IntV(3), StrV(<<"2", "5">>), UA, SEA),
       Flight(N1, IntV(2014), IntV(6), StrV(<<"1", "2">>), Null, StrV(<<"3", "5">>), AA, SEA),
       Flight(N2, Null, IntV(7), StrV(<<"-", "1">>), IntV(0), StrV(<<"5", "0">>), AA, PDX),
       Flight(Null, IntV(2014), IntV(8), StrV(<<"4">>), IntV(4), StrV(<<"4", "5">>), UA, PDX) >>

PlaneCands ==
    << [tailnum |-> N1, year |-> StrV(<<"2", "0", "0", "0">>)],
       [tailnum |-> N2, year |-> StrV(<<"1", "9", "9", "8">>)],
       [tailnum |-> N2, year |-> NA],
       [tailnum |-> N1, year |-> StrV(<<"1", "9", "9", "0">>)] >>

\* Tables are enumerated up to the order of their rows.
NonDecreasing(n, m) ==
    {s \in [1..n -> 1..m] : \A i \in 1..n : \A j \in 1..n : i <= j => s[i] <= s[j]}

TablesOver(cands, maxLen) ==
    UNION {{[i \in 1..n |-> cands[s[i]]] : s \in NonDecreasing(n, Len(cands))} :
           n \in 0..maxLen}

FlightTables == TablesOver(FlightCands, MaxFlights)
PlaneTables == TablesOver(PlaneCands, MaxPlanes)

(***************************************************************************)
(* The encoder pipeline: StringIndexer, OneHotEncoder, VectorAssembler.    *)
(***************************************************************************)
Values(col) == {col[i] : i \in 1..Len(col)} \ {Null}

Count(col, v) == Cardinality({i \in 1..Len(col) : col[i] = v})

\* StringIndexer.fit: the distinct values of the column, most frequent
\* first; the order among equally frequent values is not fixed.
LabelOrders(col) ==
    LET vs == Values(col)
        n == Cardinality(vs)
    IN  {s \in [1..n -> vs] :
            /\ \A i \in 1..n : \A j \in 1..n : i # j => s[i] # s[j]
            /\ \A i \in 1..n : \A j \in 1..n : i < j => Count(col, s[i]) >= Count(col, s[j])}

\* StringIndexerModel.transform of one value: its position in the labels.
IndexOf(labels, v) == (CHOOSE i \in 1..Len(labels) : labels[i] = v) - 1

\* OneHotEncoder with the last category dropped.
OneHot(idx, size) == [i \in 1..(size - 1) |-> IF i = idx + 1 THEN 1 ELSE 0]

AssemblerInputs == <<"month", "air_time", "carrier_fact", "dest_fact", "plane_age">>

\* VectorAssembler: the inputs in order, scalars and vectors flattened.
Assemble(r) ==
    <<r.month.i, r.air_time.i>> \o r.carrier_fact \o r.dest_fact \o <<r.plane_age.i>>

\* A row the fitted pipeline cannot transform: an indexer meets a value that
\* is no label (a null among them), or the assembler meets a null.
Untransformable(model, r) ==
    \/ r.carrier \notin {model.carrier_labels[i] : i \in 1..Len(model.carrier_labels)}
    \/ r.dest \notin {model.dest_labels[i] : i \in 1..Len(model.dest_labels)}
    \/ IsNull(r.month) \/ IsNull(r.air_time) \/ IsNull(r.plane_age)

TransformRow(model, r) ==
    LET ci == IndexOf(model.carrier_labels, r.carrier)
        di == IndexOf(model.dest_labels, r.dest)
        r1 == WithColumn(r, "carrier_index", IntV(ci))
        r2 == WithColumn(r1, "carrier_fact", OneHot(ci, Len(model.carrier_labels)))
        r3 == WithColumn(r2, "dest_index", IntV(di))
        r4 == WithColumn(r3, "dest_fact", OneHot(di, Len(model.dest_labels)))
    IN  WithColumn(r4, "features", Assemble(r4))

\* PipelineModel.transform
PipelineTransform(model, t) == MapRows(t, LAMBDA r : TransformRow(model, r))

PipelineModels(t) ==
    {[carrier_labels |-> cl, dest_labels |-> dl] :
        cl \in LabelOrders(Column(t, "carrier")), dl \in LabelOrders(Column(t, "dest"))}

\* The indexer fits Pipeline.fit makes on a table, in stage order.
PipelineFits(t) ==
    << [col |-> "carrier", values |-> Column(t, "carrier")],
       [col |-> "dest", values |-> Column(t, "dest")] >>

(***************************************************************************)
(* randomSplit([0.8, 0.2]): every row draws once; the rows whose draw      *)
(* falls below 0.8 (the positions in S) go to train, the others to test.   *)
(***************************************************************************)
RECURSIVE Pick(_, _, _)
Pick(t, S, i) ==
    IF i > Len(t) THEN <<>>
    ELSE (IF i \in S THEN <<t[i]>> ELSE <<>>) \o Pick(t, S, i + 1)

Rows(t, S) == Pick(t, S, 1)

RandomSplitOverlapping(t, S) == <<Rows(t, S), t>>

\* The two subsets when each is indexed and encoded by a pipeline fit on
\* that subset alone.
Strip(r) == [f \in (DOMAIN r) \ {"carrier_index", "carrier_fact", "dest_index",
                                   "dest_fact", "features"} |-> r[f]]

FitOnSubset(t) ==
    LET raw == MapRows(t, Strip)
    IN  PipelineTransform(CHOOSE m \in PipelineModels(raw) : TRUE, raw)

RandomSplitThenFit(t, S) ==
    <<FitOnSubset(Rows(t, S)), FitOnSubset(Rows(t, (1..Len(t)) \ S))>>

RandomSplit(t, S) == <<Rows(t, S), Rows(t, (1..Len(t)) \ S)>>

(***************************************************************************)
(* Cells 3..16.                                                            *)
(***************************************************************************)
NoCV ==
    /\ cvDataset = <<>>
    /\ foldOf = <<>>
    /\ fold = 0
    /\ results = <<>>
    /\ metrics = <<>>
    /\ numFits = 0
    /\ best_lr = <<>>
    /\ test_results = <<>>
    /\ auc = -1

Init ==
    /\ flights \in FlightTables
    /\ planes \in PlaneTables
    /\ model_data = <<>>
    /\ fits = <<>>
    /\ pipe_model = <<>>
    /\ piped_data = <<>>
    /\ train = <<>>
    /\ test = <<>>
    /\ pc = "rename"
    /\ NoCV

Rename ==
    /\ pc = "rename"
    /\ planes' = MapRows(planes, RenameYear)
    /\ pc' = "join"
    /\ UNCHANGED <<flights, model_data, fits, pipe_model, piped_data, train, test>>
    /\ UNCHANGED cvVars

Join ==
    /\ pc = "join"
    /\ model_data' = LeftOuterJoin(flights, planes)
    /\ pc' = "cast_arr_delay"
    /\ UNCHANGED <<flights, planes, fits, pipe_model, piped_data, train, test>>
    /\ UNCHANGED cvVars

CastStep(at, name, next) ==
    /\ pc = at
    /\ model_data' = CastColumn(model_data, name)
    /\ pc' = next
    /\ UNCHANGED <<flights, planes, fits, pipe_model, piped_data, train, test>>
    /\ UNCHANGED cvVars

CastArrDelay == CastStep("cast_arr_delay", "arr_delay", "cast_air_time")
CastAirTime == CastStep("cast_air_time", "air_time", "cast_month")
CastMonth == CastStep("cast_month", "month", "cast_plane_year")
CastPlaneYear == CastStep("cast_plane_year", "plane_year", "plane_age")

PlaneAge ==
    /\ pc = "plane_age"
    /\ model_data' = AddPlaneAge(model_data)
    /\ pc' = "is_late"
    /\ UNCHANGED <<flights, planes, fits, pipe_model, piped_data, train, test>>
    /\ UNCHANGED cvVars

IsLate ==
    /\ pc = "is_late"
    /\ model_data' = AddIsLate(model_data)
    /\ pc' = "label"
    /\ UNCHANGED <<flights, planes, fits, pipe_model, piped_data, train, test>>
    /\ UNCHANGED cvVars

Label ==
    /\ pc = "label"
    /\ model_data' = AddLabel(model_data)
    /\ pc' = "filter"
    /\ UNCHANGED <<flights, planes, fits, pipe_model, piped_data, train, test>>
    /\ UNCHANGED cvVars

Filter ==
    /\ pc = "filter"
    /\ model_data' = FilterRows(model_data)
    /\ pc' = "pipe"
    /\ UNCHANGED <<flights, planes, fits, pipe_model, piped_data, train, test>>
    /\ UNCHANGED cvVars

\* piped_data = model_pipe.fit(model_data).transform(model_data).  The
\* transform raises when a row cannot be transformed.
Pipe ==
    /\ pc = "pipe"
    /\ \E m \in PipelineModels(model_data) :
          /\ pipe_model' = m
          /\ fits' = fits \o PipelineFits(model_data)
          /\ IF \E i \in 1..Len(model_data) : Untransformable(m, model_data[i])
             THEN /\ pc' = "failed"
                  /\ UNCHANGED piped_data
             ELSE /\ piped_data' = PipelineTransform(m, model_data)
                  /\ pc' = "split"
    /\ UNCHANGED <<flights, planes, model_data, train, test>>
    /\ UNCHANGED cvVars

\* train, test = piped_data.randomSplit([0.8, 0.2])
Split ==
    /\ pc = "split"
    /\ \E S \in SUBSET (1..Len(piped_data)) :
          /\ train' = RandomSplit(piped_data, S)[1]
          /\ test' = RandomSplit(piped_data, S)[2]
    /\ pc' = "cv_fit"
    /\ UNCHANGED <<flights, planes, model_data, fits, pipe_model, piped_data>>
    /\ UNCHANGED cvVars

Next ==
    \/ Rename
    \/ Join
    \/ CastArrDelay
    \/ CastAirTime
    \/ CastMonth
    \/ CastPlaneYear
    \/ PlaneAge
    \/ IsLate
    \/ Label
    \/ Filter
    \/ Pipe
    \/ Split

Spec == Init /\ [][Next]_vars

(***************************************************************************)
(* Properties of cells 3..16.                                              *)
(***************************************************************************)
BeforePipe ==
    {"rename", "join", "cast_arr_delay", "cast_air_time", "cast_month",
     "cast_plane_year", "plane_age", "is_late", "label", "filter", "pipe"}

FitsOf(col) == SelectSeq(fits, LAMBDA f : f.col = col)

SameCodes(r, q) ==
    /\ r.carrier = q.carrier =>
          r.carrier_index = q.carrier_index /\ r.carrier_fact = q.carrier_fact
    /\ r.dest = q.dest => r.dest_index = q.dest_index /\ r.dest_fact = q.dest_fact

\* C1: each indexer (carrier, dest) is fit exactly once, on the whole
\* filtered table, and before the split: until the pipeline has been fit
\* nothing is split, after it each indexer has one fit and that fit scanned
\* every row of model_data, and after the split a string has one code
\* whether its row is in train or in test.
C1_FitOnceBeforeSplit ==
    /\ pc \in BeforePipe => fits = <<>> /\ train = <<>> /\ test = <<>>
    /\ pc = "split" => train = <<>> /\ test = <<>>
    /\ pc \in {"split", "cv_fit"} =>
          /\ Len(fits) = 2
          /\ \A col \in {"carrier", "dest"} :
                /\ Len(FitsOf(col)) = 1
                /\ FitsOf(col)[1].values = Column(model_data, col)
    /\ pc = "cv_fit" =>
          \A i \in 1..Len(train) : \A j \in 1..Len(test) : SameCodes(train[i], test[j])

\* C1 happens: the split has put rows of both carriers in train and a row
\* of one of those carriers in test.
C1_Witness ==
    /\ pc = "cv_fit"
    /\ \E i \in 1..Len(train) : \E j \in 1..Len(train) : \E n \in 1..Len(test) :
          /\ train[i].carrier # train[j].carrier
          /\ test[n].carrier = train[j].carrier

\* C2: no row that reaches feature assembly has a null in a column the
\* assembler reads (the two encoded columns are never null; month, air_time
\* and plane_age are cells of the filtered table).
C2_NoNullReachesAssembler ==
    pc = "pipe" =>
        \A i \in 1..Len(model_data) :
            /\ ~IsNull(model_data[i].month)
            /\ ~IsNull(model_data[i].air_time)
            /\ ~IsNull(model_data[i].plane_age)

UniqueKeys(ps) ==
    \A i \in 1..Len(ps) : \A j \in 1..Len(ps) : ps[i].tailnum = ps[j].tailnum => i = j

Unmatched(f, ps) == \A j \in 1..Len(ps) : IsNull(f.tailnum) \/ ps[j].tailnum # f.tailnum

\* C3 as claimed: the join returns exactly as many rows as flights has, for
\* every flights and planes table.
C3_JoinKeepsRowCount == pc = "cast_arr_delay" => Len(model_data) = Len(flights)

\* C3 amended: the join never returns fewer rows than flights has; when no
\* tailnum occurs twice in planes it returns exactly as many; and a flight
\* with no match is kept, with a null plane_year.
C3_JoinRowCountUniqueKeys ==
    pc = "cast_arr_delay" =>
        /\ Len(model_data) >= Len(flights)
        /\ UniqueKeys(planes) => Len(model_data) = Len(flights)
        /\ \A i \in 1..Len(flights) :
              Unmatched(flights[i], planes) =>
                  \E n \in 1..Len(model_data) :
                      /\ IsNull(model_data[n].plane_year)
                      /\ \A c \in DOMAIN flights[i] : model_data[n][c] = flights[i][c]

\* C3 happens: planes has rows, no key twice, one flight matches and
\* another does not.
C3_Witness ==
    /\ pc = "cast_arr_delay"
    /\ planes # <<>>
    /\ UniqueKeys(planes)
    /\ \E i \in 1..Len(flights) : Unmatched(flights[i], planes)
    /\ \E i \in 1..Len(flights) : ~Unmatched(flights[i], planes)

Complete(r) == \A c \in RequiredColumns : ~IsNull(r[c])

\* The n-th position of t that holds a complete row.
NthComplete(t, n) ==
    CHOOSE i \in 1..Len(t) :
        /\ Complete(t[i])
        /\ Cardinality({j \in 1..i : Complete(t[j])}) = n

\* What the filter statement does to the table.
FilterEffect ==
    /\ Len(model_data') = Cardinality({i \in 1..Len(model_data) : Complete(model_data[i])})
    /\ \A n \in 1..Len(model_data') :
          model_data'[n] = model_data[NthComplete(model_data, n)]

\* C4: the filter removes exactly the rows with a null in arr_delay,
\* dep_delay, air_time or plane_year, and keeps every other row as it was,
\* in order.
C4_FilterRemovesExactlyNullRows == [][pc = "filter" => FilterEffect]_vars

\* C4 happens: the filter has run on a table with a null dep_delay row and
\* has kept some row.
C4_Witness ==
    /\ pc = "pipe"
    /\ model_data # <<>>
    /\ \E i \in 1..Len(flights) : IsNull(flights[i].dep_delay)

\* C5: the split partitions piped_data exactly: train and test together hold
\* every row of piped_data as often as piped_data does, so no row is lost or
\* in both, and the row counts add up.
C5_SplitPartitions ==
    pc = "cv_fit" =>
        /\ BagOf(train) (+) BagOf(test) = BagOf(piped_data)
        /\ Len(train) + Len(test) = Len(piped_data)

\* C5 happens: a split with rows on both sides.
C5_Witness == pc = "cv_fit" /\ train # <<>> /\ test # <<>>

CastTarget ==
    [cast_arr_delay |-> "arr_delay", cast_air_time |-> "air_time",
     cast_month |-> "month", cast_plane_year |-> "plane_year"]

\* A string no integer can be read from: empty, or with a character that is
\* no digit, sign or point.
Malformed(v) ==
    /\ v.k = "str"
    /\ \/ v.s = <<>>
       \/ \E i \in 1..Len(v.s) : v.s[i] \notin Digits \cup {"-", "+", "."}

\* What a cast statement does to the table.
CastEffect ==
    /\ pc' # "failed"
    /\ Len(model_data') = Len(model_data)
    /\ \A i \in 1..Len(model_data) :
          /\ DOMAIN model_data'[i] = DOMAIN model_data[i]
          /\ \A c \in DOMAIN model_data[i] :
                IF c = CastTarget[pc]
                THEN /\ Malformed(model_data[i][c]) => model_data'[i][c] = Null
                     /\ model_data[i][c].k = "int" => model_data'[i][c] = model_data[i][c]
                ELSE model_data'[i][c] = model_data[i][c]

\* C8: a cast statement never raises; a cell that cannot be coerced becomes
\* null, an integer cell stays, and every other column of every row is left
\* as it was.
C8_CastYieldsNullNeverRaises == [][(pc \in (DOMAIN CastTarget)) => CastEffect]_vars

\* C8 happens: the cast of month has met a malformed cell, left a null and
\* the run goes on.
C8_Witness ==
    /\ pc = "cast_plane_year"
    /\ \E i \in 1..Len(model_data) :
          /\ IsNull(model_data[i].month)
          /\ \E j \in 1..Len(flights) :
                Malformed(flights[j].month) /\ flights[j].carrier = model_data[i].carrier

(***************************************************************************)
(* Cells 17..27: the grid, CrossValidator.fit, bestModel and the test      *)
(* metric.                                                                 *)
(***************************************************************************)
\* grid.addGrid(lr.regParam, np.arange(0, .1, .01)), in hundredths;
\* grid.addGrid(lr.elasticNetParam, [0, 1]); grid.build() enumerates the
\* product with regParam outermost.
RegParams == [r \in 1..NumReg |-> r - 1]
ElasticNetParams == [e \in 1..NumElasticNet |-> e - 1]

Grid ==
    [j \in 1..(NumReg * NumElasticNet) |->
        [regParam |-> RegParams[((j - 1) \div NumElasticNet) + 1],
         elasticNetParam |-> ElasticNetParams[((j - 1) % NumElasticNet) + 1]]]

NumModels == Len(Grid)

Folds == 0..(NumFolds - 1)

\* The values a fold's areaUnderROC takes in the model: low and high.
MetricValues == {0, 1}

Pending == -1

\* The dataset cv.fit is handed, were it the whole piped table.
FitDatasetAll == piped_data

\* models = cv.fit(train)
FitDataset == train

\* The rows fold i validates on and the rows it trains on.
FoldValidation(i) == Rows(cvDataset, {n \in 1..Len(cvDataset) : foldOf[n] = i})
FoldTrain(i) == Rows(cvDataset, {n \in 1..Len(cvDataset) : foldOf[n] # i})

\* A running sum that keeps only the latest metric.
AccumulateOverwrite(m, j, metric) == [m EXCEPT ![j] = metric]

\* metrics[j] += metric / nFolds; the model keeps nFolds times the mean.
Accumulate(m, j, metric) == [m EXCEPT ![j] = @ + metric]

\* The last position of the largest entry.
ArgMaxLast(m) ==
    CHOOSE j \in 1..Len(m) :
        /\ \A n \in 1..Len(m) : m[n] <= m[j]
        /\ \A n \in (j + 1)..Len(m) : m[n] < m[j]

\* np.argmax(metrics): the first position of the largest entry.
ArgMax(m) ==
    CHOOSE j \in 1..Len(m) :
        /\ \A n \in 1..Len(m) : m[n] <= m[j]
        /\ \A n \in 1..(j - 1) : m[n] < m[j]

FoldDone(res, i) == \A j \in 1..NumModels : res[j][i] # Pending

CVFlights == <<FlightCands[1], FlightCands[2]>>
CVPlanes == <<PlaneCands[1], PlaneCands[2]>>

\* Cells 5..10 on a pair of tables.
Prepare(fs, ps) ==
    FilterRows(AddLabel(AddIsLate(AddPlaneAge(
        CastColumn(CastColumn(CastColumn(CastColumn(
            LeftOuterJoin(fs, MapRows(ps, RenameYear)),
            "arr_delay"), "air_time"), "month"), "plane_year")))))

\* The states after cell 16 when the tables loaded are CVFlights and
\* CVPlanes, for one of the label orders the indexers may settle on and
\* every outcome of the split.
InitCV ==
    /\ flights = CVFlights
    /\ planes = MapRows(CVPlanes, RenameYear)
    /\ model_data = Prepare(CVFlights, CVPlanes)
    /\ fits = PipelineFits(model_data)
    /\ pipe_model = CHOOSE m \in PipelineModels(model_data) : TRUE
    /\ piped_data = PipelineTransform(pipe_model, model_data)
    /\ \E S \in SUBSET (1..Len(piped_data)) :
          /\ train = RandomSplit(piped_data, S)[1]
          /\ test = RandomSplit(piped_data, S)[2]
    /\ pc = "cv_fit"
    /\ NoCV

\* cv.fit(train) starts: the rows are dealt to the folds at random and the
\* sums are zeroed.
CvFit ==
    /\ pc = "cv_fit"
    /\ cvDataset' = FitDataset
    /\ foldOf' \in [1..Len(FitDataset) -> Folds]
    /\ fold' = 0
    /\ results' = [j \in 1..NumModels |-> [i \in Folds |-> Pending]]
    /\ metrics' = [j \in 1..NumModels |-> 0]
    /\ pc' = "cv_folds"
    /\ UNCHANGED <<numFits, best_lr, test_results, auc>>
    /\ UNCHANGED dataVars

\* One (grid point, fold) task of the current fold finishes, in any order
\* among the tasks of that fold: the estimator is fit on the fold's training
\* rows, scored on its validation rows, and the score is added to the sum of
\* its grid point.  The loop moves to the next fold after the last task.
TaskReturns(j) ==
    /\ pc = "cv_folds"
    /\ fold \in Folds
    /\ results[j][fold] = Pending
    /\ \E metric \in MetricValues :
          /\ results' = [results EXCEPT ![j][fold] = metric]
          /\ metrics' = Accumulate(metrics, j, metric)
    /\ numFits' = numFits + 1
    /\ fold' = IF FoldDone(results', fold) THEN fold + 1 ELSE fold
    /\ UNCHANGED <<cvDataset, foldOf, best_lr, test_results, auc, pc>>
    /\ UNCHANGED dataVars

\* A task raises: nothing in the notebook or in cv.fit catches it, so the
\* exception leaves cell 24, the sums collected so far are lost and best_lr
\* is never bound.
TaskRaises(j) ==
    /\ pc = "cv_folds"
    /\ fold \in Folds
    /\ results[j][fold] = Pending
    /\ numFits' = numFits + 1
    /\ results' = <<>>
    /\ metrics' = <<>>
    /\ pc' = "aborted"
    /\ UNCHANGED <<cvDataset, foldOf, fold, best_lr, test_results, auc>>
    /\ UNCHANGED dataVars

\* After the last fold: the best grid point is picked and the estimator is
\* refit on the whole dataset with it; cv.fit returns the sums (avgMetrics)
\* and the refit model, the tasks' own results are gone;
\* best_lr = models.bestModel.
SelectBest ==
    /\ pc = "cv_folds"
    /\ fold = NumFolds
    /\ best_lr' = [index |-> ArgMax(metrics), params |-> Grid[ArgMax(metrics)],
                   trainedOn |-> cvDataset]
    /\ results' = <<>>
    /\ pc' = "transform_test"
    /\ UNCHANGED <<cvDataset, foldOf, fold, metrics, numFits, test_results, auc>>
    /\ UNCHANGED dataVars

\* test_results = best_lr.transform(test)
TransformTest ==
    /\ pc = "transform_test"
    /\ \E p \in [1..Len(test) -> {0, 1}] :
          test_results' = [n \in 1..Len(test) |-> WithColumn(test[n], "prediction", IntV(p[n]))]
    /\ pc' = "evaluate"
    /\ UNCHANGED <<cvDataset, foldOf, fold, results, metrics, numFits, best_lr, auc>>
    /\ UNCHANGED dataVars

\* evaluator.evaluate(test_results)
Evaluate ==
    /\ pc = "evaluate"
    /\ auc' \in MetricValues
    /\ pc' = "done"
    /\ UNCHANGED <<cvDataset, foldOf, fold, results, metrics, numFits, best_lr, test_results>>
    /\ UNCHANGED dataVars

NextCV ==
    \/ CvFit
    \/ \E j \in 1..NumModels : TaskReturns(j)
    \/ \E j \in 1..NumModels : TaskRaises(j)
    \/ SelectBest
    \/ TransformTest
    \/ Evaluate

SpecCV == InitCV /\ [][NextCV]_vars

(***************************************************************************)
(* Properties of cells 17..27.                                             *)
(***************************************************************************)
CvReturned == pc \in {"transform_test", "evaluate", "done"}

\* C6: when cv.fit returns it has made exactly m * n * k fold-fits, and the
\* grid point it selected has the largest mean metric, the first such point
\* in the grid's enumeration order.
C6_GridSearchFitsAndArgMax ==
    CvReturned =>
        /\ numFits = NumReg * NumElasticNet * NumFolds
        /\ \A j \in 1..NumModels : metrics[j] <= metrics[best_lr.index]
        /\ \A j \in 1..(best_lr.index - 1) : metrics[j] < metrics[best_lr.index]
        /\ best_lr.params = Grid[best_lr.index]

\* C6 happens: a sweep has returned with two grid points tied for the best
\* mean, above a worse one or above zero.
C6_Witness ==
    /\ CvReturned
    /\ metrics[best_lr.index] > 0
    /\ \E j \in 1..NumModels : j # best_lr.index /\ metrics[j] = metrics[best_lr.index]

\* C7: a failing (grid point, fold) fit never aborts the sweep.
C7_SweepNeverAborts == pc # "aborted"

RECURSIVE SumOver(_, _)
SumOver(f, S) ==
    IF S = {} THEN 0
    ELSE LET x == CHOOSE y \in S : TRUE IN f[x] + SumOver(f, S \ {x})

Finished(j) == {i \in Folds : results[j][i] # Pending}

\* The sum of a grid point computed from its tasks' metrics alone.
ReducedSum(j) == SumOver(results[j], Finished(j))

\* The sums while the sweep runs.
SumsAreReduced == pc = "cv_folds" => \A j \in 1..NumModels : metrics[j] = ReducedSum(j)

\* The selection when the sweep ends.
SelectionIsReduced ==
    pc = "cv_folds" /\ pc' = "transform_test" =>
        /\ \A j \in 1..NumModels : Finished(j) = Folds
        /\ \A j \in 1..NumModels : metrics'[j] = ReducedSum(j)
        /\ \A j \in 1..NumModels : ReducedSum(j) <= ReducedSum(best_lr'.index)
        /\ \A j \in 1..(best_lr'.index - 1) : ReducedSum(j) < ReducedSum(best_lr'.index)

\* C9: whatever the order in which the tasks finish, the sum of a grid point
\* is the sum of the metrics its finished tasks returned, and the selected
\* point is the first of the points whose sum over all folds is largest:
\* both are functions of the tasks' metrics, not of their order.
C9_OrderIndependentReduction == []SumsAreReduced /\ [][SelectionIsReduced]_vars

\* C9 happens: within one fold a later grid point has finished while an
\* earlier one is still pending.
C9_Witness ==
    /\ pc = "cv_folds"
    /\ fold \in Folds
    /\ \E j \in 1..NumModels : \E n \in 1..NumModels :
          j < n /\ results[j][fold] = Pending /\ results[n][fold] = 1

\* C10: model selection reads only train: the dataset the folds are cut
\* from and the final refit is trained on is train, whose rows together
\* with the test rows make up piped_data; every fold's training and
\* validation rows are rows of train; and test is scored only after best_lr
\* is bound.
C10_TestUntouched ==
    /\ pc \in {"cv_folds", "aborted", "transform_test", "evaluate", "done"} =>
          /\ cvDataset = train
          /\ BagOf(cvDataset) (+) BagOf(test) = BagOf(piped_data)
          /\ \A i \in Folds : BagOf(FoldTrain(i)) (+) BagOf(FoldValidation(i)) = BagOf(train)
    /\ CvReturned => best_lr # <<>> /\ best_lr.trainedOn = train
    /\ pc \in {"cv_fit", "cv_folds", "aborted", "transform_test"} => test_results = <<>>
    /\ pc \in {"evaluate", "done"} =>
          /\ best_lr # <<>>
          /\ Len(test_results) = Len(test)

\* C10 happens: the run has scored a non-empty test subset after a sweep
\* over a non-empty train subset.
C10_Witness == pc = "done" /\ train # <<>> /\ test # <<>> /\ test_results # <<>>

====
